---- MODULE Spec2Model ----
(***************************************************************************)
(* Agricultural Value Chain Analyzer (src/app.py).                         *)
(*                                                                         *)
(* The script collects an ordered list of actors from the sidebar form,    *)
(* makes one forward pass over it that emits one metric row per actor      *)
(* (carrying prev_revenue from one actor to the next and dividing by the   *)
(* retail_price fixed before the loop), and then makes a second pass over  *)
(* the rows that emits the threshold warnings.                             *)
(*                                                                         *)
(* Numbers.  The form yields Python floats.  The model keeps every price   *)
(* as an integer number of thousandths of a currency unit (Unit = one      *)
(* currency unit), so that prices with more than two decimals exist, and   *)
(* keeps every value that the code passes through round(x, 2) as an        *)
(* integer number of hundredths.  The input sets below are chosen so that  *)
(* the double-precision results of the code agree with the exact           *)
(* round-half-even arithmetic of Round2 on every input of the model.       *)
(***************************************************************************)
EXTENDS Integers, Sequences, FiniteSets, TLC

\* ---------------------------------------------------------------- bounds
\* Longest actor list the model feeds to the passes (the form allows 10).
MaxLen == 3
\* Number of executions of the script over the same form contents.
MaxRuns == 2

\* ------------------------------------------------------ program constants
\* st.sidebar.number_input("Number of Actors", min_value=2, ...)
MinActors == 2
\* One currency unit, in the model's price unit (thousandths).
Unit == 1000
\* row["Gross Margin (%)"] < 20
MarginThreshold == 20
\* row["Value Share (%)"] < 10
ShareThreshold == 10
\* retail_price = ... if actors else 1
EmptyRetailPrice == 1

\* ------------------------------------------------------------ arithmetic
\* Nearest integer to n / d (d # 0), a tie going to the even neighbour:
\* the rounding rule of Python's round() on a value that is exactly
\* halfway.
RoundDiv(n, d) ==
    LET nn == IF d < 0 THEN 0 - n ELSE n
        dd == IF d < 0 THEN 0 - d ELSE d
        q  == nn \div dd
        r  == nn - q * dd
    IN  IF 2 * r < dd THEN q
        ELSE IF 2 * r > dd THEN q + 1
        ELSE IF q % 2 = 0 THEN q ELSE q + 1

\* round(num / den, 2), as a number of hundredths.
Round2(num, den) == RoundDiv(100 * num, den)

\* ------------------------------------------------------------ the inputs
\* One form entry: {"name": name, "cost": cost, "revenue": revenue}.
Actor(n, c, r) == [name |-> n, cost |-> c, revenue |-> r]

\* The <<cost, revenue>> pairs of the exhaustive part of the input set:
\* a zero selling price with a zero, positive and negative buying price, a
\* selling price with a third decimal, a profit, a loss, and a negative
\* selling price.
PricePairs ==
    { <<0, 0>>, <<Unit, 0>>, <<0 - Unit, 0>>, <<0, Unit + 4>>,
      <<Unit, 2 * Unit>>, <<2 * Unit, Unit>>, <<Unit, 0 - Unit>> }

\* The names typed into the form, by position (names need not be unique).
Namings == { <<"F", "P", "R", "F">>, <<"P", "P", "F", "R">> }

RECURSIVE SeqsOfLen(_, _)
SeqsOfLen(S, n) ==
    IF n = 0 THEN { <<>> }
    ELSE { Append(s, x) : s \in SeqsOfLen(S, n - 1), x \in S }

\* Every chain of n actors over the price grid, under every naming.
GridChains(n) ==
    { [k \in 1..n |-> Actor(nm[((k - 1) % 4) + 1], ps[k][1], ps[k][2])] :
        ps \in SeqsOfLen(PricePairs, n), nm \in Namings }

\* Chains chosen for the cases the properties speak about.
FPR ==
    << Actor("F", 0, 10 * Unit), Actor("P", 10 * Unit, 25 * Unit),
       Actor("R", 25 * Unit, 40 * Unit) >>
LowBoth ==
    << Actor("F", 0, 95 * Unit), Actor("R", 85 * Unit, 100 * Unit) >>
Healthy ==
    << Actor("F", 0, 40 * Unit), Actor("P", 35 * Unit, 70 * Unit),
       Actor("R", 80 * Unit, 100 * Unit) >>
AtThresholds ==
    << Actor("F", 0, 90 * Unit), Actor("R", 80 * Unit, 100 * Unit) >>
RoundsUpToThreshold ==
    << Actor("F", 0, Unit), Actor("R", 4 * Unit + 1, 5 * Unit + 1) >>
TieDown ==
    << Actor("F", 0, 16 * Unit), Actor("R", 31 * Unit, 32 * Unit) >>
TieUp ==
    << Actor("F", 0, 29 * Unit), Actor("R", 29 * Unit, 32 * Unit) >>
SampleChains ==
    { FPR, LowBoth, Healthy, AtThresholds, RoundsUpToThreshold, TieDown, TieUp }

\* What the form can deliver: num_actors is at least MinActors.
FormInputs ==
    UNION { GridChains(n) : n \in MinActors..MaxLen } \cup SampleChains

\* What the two passes accept as a function of the list: any list, the
\* empty one included.
PassInputs ==
    UNION { GridChains(n) : n \in 0..MaxLen } \cup SampleChains

\* ------------------------------------------------------------- the state
VARIABLES
    actors,           \* the list built from the form (lines 20-26)
    data,             \* the metric rows emitted so far (line 29)
    prev_revenue,     \* selling price of the actor processed last (line 30)
    retail_price,     \* divisor of every value share (line 31)
    recommendations,  \* the warnings emitted so far (line 87)
    pc,               \* "compute", "recommend" or "done"
    i,                \* position of the metric loop in actors (line 33)
    j,                \* position of the recommendation loop in data (line 88)
    run,              \* which execution of the script this is
    last_run          \* history: rows and warnings of the previous execution

vars ==
    << actors, data, prev_revenue, retail_price, recommendations,
       pc, i, j, run, last_run >>

\* --------------------------------------------------- the metric formulas
\* Variant: an empty list leaves the divisor at 0.
RetailPriceEmptyZero(as) ==
    IF as # << >> THEN as[Len(as)].revenue ELSE 0

\* Variant: the farm-gate price (first actor) is taken as the retail price.
RetailPriceFirst(as) ==
    IF as # << >> THEN as[1].revenue ELSE EmptyRetailPrice * Unit

\* retail_price = actors[-1]["revenue"] if actors else 1
RetailPrice(as) ==
    IF as # << >> THEN as[Len(as)].revenue ELSE EmptyRetailPrice * Unit

\* gross_income = actor["revenue"] - actor["cost"]
GrossIncome(actor) == actor.revenue - actor.cost

\* Variant: the margin is left as a fraction, the "* 100" forgotten.
GrossMarginFraction(actor) ==
    IF actor.revenue # 0
    THEN Round2(actor.revenue - actor.cost, actor.revenue)
    ELSE Round2(0, 1)

\* round((gross_income / actor["revenue"]) * 100 if actor["revenue"] else 0, 2)
GrossMargin(actor) ==
    IF actor.revenue # 0
    THEN Round2(GrossIncome(actor) * 100, actor.revenue)
    ELSE Round2(0, 1)

\* Variant: value added measured against the actor's own buying price.
AddedValueFromCost(actor, prev) == actor.revenue - actor.cost

\* added_value = actor["revenue"] - prev_revenue
AddedValue(actor, prev) == actor.revenue - prev

\* Variant: a zero retail price is replaced by the divisor 1, as for the
\* empty list.
ValueShareOrOne(added, retail) ==
    Round2(added * 100, IF retail # 0 THEN retail ELSE EmptyRetailPrice * Unit)

\* round((added_value / retail_price) * 100 if retail_price else 0, 2)
ValueShare(added, retail) ==
    IF retail # 0 THEN Round2(added * 100, retail) ELSE Round2(0, 1)

\* Variant: the two price columns are filled from each other's field.
MetricRowSwapped(actor, prev, retail) ==
    [ Actor        |-> actor.name,
      BuyingPrice  |-> actor.revenue,
      SellingPrice |-> actor.cost,
      GrossIncome  |-> GrossIncome(actor),
      GrossMargin  |-> GrossMargin(actor),
      AddedValue   |-> Round2(AddedValue(actor, prev), Unit),
      ValueShare   |-> ValueShare(AddedValue(actor, prev), retail) ]

\* Variant: the share is taken of the actor's own selling price, the price
\* reached so far, instead of the final retail price.
MetricRowRunning(actor, prev, retail) ==
    [ Actor        |-> actor.name,
      BuyingPrice  |-> actor.cost,
      SellingPrice |-> actor.revenue,
      GrossIncome  |-> GrossIncome(actor),
      GrossMargin  |-> GrossMargin(actor),
      AddedValue   |-> Round2(AddedValue(actor, prev), Unit),
      ValueShare   |-> ValueShare(AddedValue(actor, prev), actor.revenue) ]

\* The dictionary appended to data (lines 39-47).  Buying Price, Selling
\* Price and Gross Income are in thousandths; the three rounded columns
\* are in hundredths.
MetricRow(actor, prev, retail) ==
    [ Actor        |-> actor.name,
      BuyingPrice  |-> actor.cost,
      SellingPrice |-> actor.revenue,
      GrossIncome  |-> GrossIncome(actor),
      GrossMargin  |-> GrossMargin(actor),
      AddedValue   |-> Round2(AddedValue(actor, prev), Unit),
      ValueShare   |-> ValueShare(AddedValue(actor, prev), retail) ]

\* The two warning texts, kept as what they are built from: which
\* warning, the actor named and the value quoted.
Warning(kind, row, value) == [kind |-> kind, actor |-> row.Actor, value |-> value]

\* Variant: the thresholds are inclusive.
RowWarningsInclusive(row) ==
    (IF row.GrossMargin <= MarginThreshold * 100
     THEN << Warning("low_margin", row, row.GrossMargin) >> ELSE << >>)
    \o
    (IF row.ValueShare <= ShareThreshold * 100
     THEN << Warning("low_share", row, row.ValueShare) >> ELSE << >>)

\* The messages one row adds to recommendations (lines 89-92).
RowWarnings(row) ==
    (IF row.GrossMargin < MarginThreshold * 100
     THEN << Warning("low_margin", row, row.GrossMargin) >> ELSE << >>)
    \o
    (IF row.ValueShare < ShareThreshold * 100
     THEN << Warning("low_share", row, row.ValueShare) >> ELSE << >>)

\* ------------------------------------------------------------ the script
\* The state when the loop of line 33 is about to start: the form has been
\* read and lines 29-31 have run.
Start(as) ==
    /\ actors = as
    /\ data = << >>
    /\ prev_revenue = 0
    /\ retail_price = RetailPrice(as)
    /\ recommendations = << >>
    /\ pc = "compute"
    /\ i = 1
    /\ j = 1
    /\ run = 1
    /\ last_run = [data |-> << >>, recommendations |-> << >>]

Init == \E as \in FormInputs : Start(as)

PassInit == \E as \in PassInputs : Start(as)

\* Variant: line 49 is missing, prev_revenue is never carried forward.
ComputeStepNoCarry ==
    /\ pc = "compute"
    /\ i <= Len(actors)
    /\ data' = Append(data, MetricRow(actors[i], prev_revenue, retail_price))
    /\ i' = i + 1
    /\ UNCHANGED << actors, prev_revenue, retail_price, recommendations,
                    pc, j, run, last_run >>

\* Variant: the loop writes the rounded selling price back into the actor.
ComputeStepNormalising ==
    /\ pc = "compute"
    /\ i <= Len(actors)
    /\ data' = Append(data, MetricRow(actors[i], prev_revenue, retail_price))
    /\ prev_revenue' = actors[i].revenue
    /\ actors' = [actors EXCEPT ![i].revenue = 10 * Round2(@, Unit)]
    /\ i' = i + 1
    /\ UNCHANGED << retail_price, recommendations, pc, j, run, last_run >>

\* One iteration of "for actor in actors" (lines 33-49).
ComputeStep ==
    /\ pc = "compute"
    /\ i <= Len(actors)
    /\ data' = Append(data, MetricRow(actors[i], prev_revenue, retail_price))
    /\ prev_revenue' = actors[i].revenue
    /\ i' = i + 1
    /\ UNCHANGED << actors, retail_price, recommendations, pc, j, run, last_run >>

\* The metric loop is exhausted; the script goes on to line 87.
ComputeDone ==
    /\ pc = "compute"
    /\ i > Len(actors)
    /\ recommendations' = << >>
    /\ j' = 1
    /\ pc' = "recommend"
    /\ UNCHANGED << actors, data, prev_revenue, retail_price, i, run, last_run >>

\* One iteration of "for row in data" (lines 88-92).
RecommendStep ==
    /\ pc = "recommend"
    /\ j <= Len(data)
    /\ recommendations' = recommendations \o RowWarnings(data[j])
    /\ j' = j + 1
    /\ UNCHANGED << actors, data, prev_revenue, retail_price, pc, i, run, last_run >>

\* The recommendation loop is exhausted; the page is rendered.
RecommendDone ==
    /\ pc = "recommend"
    /\ j > Len(data)
    /\ pc' = "done"
    /\ UNCHANGED << actors, data, prev_revenue, retail_price, recommendations,
                    i, j, run, last_run >>

\* Pressing the report button (line 169) makes Streamlit execute the
\* script again from the top with the same form contents.
Rerun ==
    /\ pc = "done"
    /\ run < MaxRuns
    /\ last_run' = [data |-> data, recommendations |-> recommendations]
    /\ data' = << >>
    /\ prev_revenue' = 0
    /\ retail_price' = RetailPrice(actors)
    /\ recommendations' = << >>
    /\ pc' = "compute"
    /\ i' = 1
    /\ j' = 1
    /\ run' = run + 1
    /\ UNCHANGED actors

Next ==
    \/ ComputeStep
    \/ ComputeDone
    \/ RecommendStep
    \/ RecommendDone
    \/ Rerun

Spec == Init /\ [][Next]_vars

PassSpec == PassInit /\ [][Next]_vars

\* ------------------------------------------------------------ properties
Abs(x) == IF x < 0 THEN 0 - x ELSE x

\* r hundredths is a value with two decimals nearest to num / den.
Nearest(r, num, den) == 2 * Abs(r * den - 100 * num) <= Abs(den)

\* The selling price of the actor before position k, 0 before the first.
PrevRev(k) == IF k = 1 THEN 0 ELSE actors[k - 1].revenue

\* C1: the metric pass emits exactly one row per actor, in input order: while
\* the loop runs the rows emitted are those of the actors already visited,
\* after it there are as many rows as actors, and the k-th row carries the
\* name, cost and revenue of the k-th actor unchanged.
C1_OneRowPerActorInOrder ==
    /\ pc = "compute" => Len(data) = i - 1
    /\ pc \in {"recommend", "done"} => Len(data) = Len(actors)
    /\ Len(data) <= Len(actors)
    /\ \A k \in 1..Len(data) :
          /\ data[k].Actor = actors[k].name
          /\ data[k].BuyingPrice = actors[k].cost
          /\ data[k].SellingPrice = actors[k].revenue

C1_Witness ==
    /\ pc = "done"
    /\ Len(data) = 3
    /\ data[1].Actor # data[2].Actor
    /\ data[2].SellingPrice # data[3].SellingPrice
    /\ data[3].BuyingPrice # data[3].SellingPrice

\* C2 as stated: the Added Value of every row equals the actor's revenue
\* minus the preceding actor's revenue (0 for the first), and while the
\* loop stands at actor i, prev_revenue is the revenue of actor i - 1.
C2_AddedValueIsExactDifference ==
    /\ \A k \in 1..Len(data) :
          10 * data[k].AddedValue = actors[k].revenue - PrevRev(k)
    /\ (pc = "compute" /\ i <= Len(actors)) => prev_revenue = PrevRev(i)

\* C2 amended: the Added Value of every row is the actor's revenue minus the
\* preceding actor's revenue (0 for the first) rounded to two decimals, so it
\* is that difference itself whenever the difference has no third decimal;
\* and while the loop stands at actor i, prev_revenue is the unrounded
\* revenue of actor i - 1 (0 for the first).
C2_AddedValueIsRoundedDifference ==
    /\ \A k \in 1..Len(data) :
          LET diff == actors[k].revenue - PrevRev(k)
          IN  /\ Nearest(data[k].AddedValue, diff, Unit)
              /\ diff % 10 = 0 => 10 * data[k].AddedValue = diff
    /\ (pc = "compute" /\ i <= Len(actors)) => prev_revenue = PrevRev(i)

C2_Witness ==
    /\ pc = "compute"
    /\ i = 3
    /\ actors[2].revenue # actors[2].cost + actors[1].revenue
    /\ actors[1].revenue % 10 # 0
    /\ 10 * data[1].AddedValue # actors[1].revenue
    /\ data[2].AddedValue # 0

\* C3: an actor whose revenue is 0 gets Gross Margin 0 whatever its cost and
\* still gets its row; an actor whose revenue is not 0 gets
\* (revenue - cost) / revenue * 100 rounded to two decimals.
C3_GrossMarginGuarded ==
    /\ \A k \in 1..Len(data) :
          /\ actors[k].revenue = 0 => data[k].GrossMargin = 0
          /\ actors[k].revenue # 0 =>
                Nearest(data[k].GrossMargin,
                        100 * (actors[k].revenue - actors[k].cost),
                        actors[k].revenue)
    /\ pc = "done" => Len(data) = Len(actors)

C3_Witness ==
    /\ pc = "done"
    /\ \E k \in 1..Len(data) : actors[k].revenue = 0 /\ actors[k].cost < 0
    /\ \E k \in 1..Len(data) : actors[k].revenue = 0 /\ actors[k].cost > 0
    /\ \E k \in 1..Len(data) : actors[k].revenue # 0 /\ data[k].GrossMargin = 5000

\* C4: when the last actor's revenue is 0, every row has Value Share 0
\* whatever its added value, and the pass still emits every row.
C4_ZeroRetailPriceGivesZeroShare ==
    (actors # << >> /\ actors[Len(actors)].revenue = 0) =>
        /\ \A k \in 1..Len(data) : data[k].ValueShare = 0
        /\ pc = "done" => Len(data) = Len(actors)

C4_Witness ==
    /\ pc = "done"
    /\ Len(actors) = 3
    /\ actors[3].revenue = 0
    /\ data[1].AddedValue > 0
    /\ data[2].AddedValue < 0
    /\ data[1].ValueShare = 0

\* C5: for the empty actor list retail_price is 1 (one currency unit), no
\* row and no warning is ever emitted and the loop index never moves.
C5_EmptyListDefaults ==
    actors = << >> =>
        /\ retail_price = Unit
        /\ data = << >>
        /\ recommendations = << >>
        /\ i = 1

C5_Witness ==
    /\ actors = << >>
    /\ pc = "done"
    /\ run = 2

\* The form never delivers fewer than MinActors actors.
FormDeliversAtLeastMinActors == Len(actors) >= MinActors

\* C6: for F(cost 0, revenue 10), P(10, 25), R(25, 40) the retail price is 40
\* and the rows are, in order, F: gross income 10, margin 100.00, added
\* value 10, share 25.00; P: 15, 60.00, 15, 37.50; R: 15, 37.50, 15, 37.50.
C6_WorkedExample ==
    (/\ pc \in {"recommend", "done"}
     /\ actors = << [name |-> "F", cost |-> 0, revenue |-> 10 * Unit],
                    [name |-> "P", cost |-> 10 * Unit, revenue |-> 25 * Unit],
                    [name |-> "R", cost |-> 25 * Unit, revenue |-> 40 * Unit] >>)
    =>
    /\ retail_price = 40 * Unit
    /\ data =
         << [Actor |-> "F", BuyingPrice |-> 0, SellingPrice |-> 10 * Unit,
             GrossIncome |-> 10 * Unit, GrossMargin |-> 10000,
             AddedValue |-> 1000, ValueShare |-> 2500],
            [Actor |-> "P", BuyingPrice |-> 10 * Unit, SellingPrice |-> 25 * Unit,
             GrossIncome |-> 15 * Unit, GrossMargin |-> 6000,
             AddedValue |-> 1500, ValueShare |-> 3750],
            [Actor |-> "R", BuyingPrice |-> 25 * Unit, SellingPrice |-> 40 * Unit,
             GrossIncome |-> 15 * Unit, GrossMargin |-> 3750,
             AddedValue |-> 1500, ValueShare |-> 3750] >>

C6_Witness ==
    /\ pc = "done"
    /\ actors = FPR
    /\ data[2].ValueShare = 3750

\* Rows 1..n of data whose rounded margin, resp. share, is below the limit.
LowMarginRows(n) == { k \in 1..n : data[k].GrossMargin < 20 * 100 }
LowShareRows(n) == { k \in 1..n : data[k].ValueShare < 10 * 100 }

\* Where the warnings of row k start in recommendations.
FirstSlot(k) ==
    Cardinality(LowMarginRows(k - 1)) + Cardinality(LowShareRows(k - 1)) + 1

\* C7: the recommendation pass emits, in row order, a low-margin warning for
\* a row iff its rounded Gross Margin is below 20 and a low-share warning
\* iff its rounded Value Share is below 10, the margin warning first; the
\* number of messages is the number of (row, threshold) violations; a row
\* with margin 15 and share 5 adds two messages, one with 50 and 30 none.
C7_WarningsMatchThresholds ==
    LET n == IF pc = "recommend" THEN j - 1
             ELSE IF pc = "done" THEN Len(data) ELSE 0
    IN  /\ Len(recommendations) =
              Cardinality(LowMarginRows(n)) + Cardinality(LowShareRows(n))
        /\ \A k \in 1..n :
              LET lowMargin == k \in LowMarginRows(n)
                  lowShare  == k \in LowShareRows(n)
                  shareSlot == FirstSlot(k) + (IF lowMargin THEN 1 ELSE 0)
                  added     == FirstSlot(k + 1) - FirstSlot(k)
              IN  /\ lowMargin =>
                        recommendations[FirstSlot(k)] =
                            [kind |-> "low_margin", actor |-> data[k].Actor,
                             value |-> data[k].GrossMargin]
                  /\ lowShare =>
                        recommendations[shareSlot] =
                            [kind |-> "low_share", actor |-> data[k].Actor,
                             value |-> data[k].ValueShare]
                  /\ (data[k].GrossMargin = 1500 /\ data[k].ValueShare = 500)
                        => added = 2
                  /\ (data[k].GrossMargin = 5000 /\ data[k].ValueShare = 3000)
                        => added = 0

C7_Witness ==
    /\ pc = "done"
    /\ Len(data) = 2
    /\ data[1].GrossMargin = 10000 /\ data[1].ValueShare = 9500
    /\ data[2].GrossMargin = 1500 /\ data[2].ValueShare = 500
    /\ Len(recommendations) = 2
    /\ recommendations[1].kind = "low_margin"
    /\ recommendations[2].kind = "low_share"

\* C8: for a non-empty list retail_price is, from before the loop to the
\* end, the revenue of the last actor, and every row's Value Share is
\* (revenue - preceding revenue) / last revenue * 100 rounded to two
\* decimals whenever the last revenue is not 0.
C8_ShareOfFinalRetailPrice ==
    actors # << >> =>
        LET last == actors[Len(actors)].revenue
        IN  /\ retail_price = last
            /\ last # 0 =>
                  \A k \in 1..Len(data) :
                      Nearest(data[k].ValueShare,
                              100 * (actors[k].revenue - PrevRev(k)), last)

C8_Witness ==
    /\ pc = "compute"
    /\ i = 2
    /\ Len(actors) = 3
    /\ actors[1].revenue # 0
    /\ actors[3].revenue # 0
    /\ actors[3].revenue # actors[1].revenue
    /\ actors[2].revenue # actors[3].revenue
    /\ data[1].ValueShare # 10000

\* C9: no step changes the actors list; within one execution a row, once
\* appended, is never modified or removed and the recommendation pass leaves
\* data alone; and a second execution on the same input ends with the same
\* rows and the same warnings as the one before.
C9_InputsAndRowsNeverModified ==
    /\ [][ /\ actors' = actors
           /\ run' = run =>
                 /\ Len(data') >= Len(data)
                 /\ \A k \in 1..Len(data) : data'[k] = data[k]
           /\ pc = "recommend" => data' = data ]_vars
    /\ []( (pc = "done" /\ run > 1) =>
              /\ data = last_run.data
              /\ recommendations = last_run.recommendations )

C9_Witness ==
    /\ pc = "done"
    /\ run = 2
    /\ Len(data) = 3
    /\ recommendations # << >>
    /\ \E k \in 1..3 : actors[k].revenue % 10 # 0

RECURSIVE SumAddedValue(_)
\* The sum of the Added Value column over rows 1..n.
SumAddedValue(n) == IF n = 0 THEN 0 ELSE SumAddedValue(n - 1) + data[n].AddedValue

\* C10: when every price is a whole number, the Added Value of the rows
\* emitted so far sums to the revenue of the actor processed last, which is
\* what prev_revenue holds, and over all rows of a non-empty list to the
\* retail price; also when revenues fall along the chain.
C10_AddedValueTelescopes ==
    (\A k \in 1..Len(actors) :
         actors[k].revenue % Unit = 0 /\ actors[k].cost % Unit = 0)
    =>
    /\ pc = "compute" =>
          /\ 10 * SumAddedValue(Len(data)) = prev_revenue
          /\ Len(data) > 0 => prev_revenue = actors[Len(data)].revenue
    /\ (pc \in {"recommend", "done"} /\ actors # << >>) =>
          10 * SumAddedValue(Len(data)) = retail_price

C10_Witness ==
    /\ pc = "done"
    /\ Len(actors) = 3
    /\ \A k \in 1..3 : actors[k].revenue % Unit = 0 /\ actors[k].cost % Unit = 0
    /\ actors[2].revenue < actors[1].revenue
    /\ data[2].AddedValue < 0
    /\ data[2].ValueShare < 0
    /\ retail_price # 0
    /\ 10 * SumAddedValue(3) = retail_price

====
